---- MODULE Spec2Model ----
(***************************************************************************)
(* A model of streamlit_app.py, the AWS EC2 & S3 exploratory dashboard.    *)
(*                                                                         *)
(* The program is a Streamlit script: every user interaction with a        *)
(* sidebar widget re-executes the whole script from its first line.  The   *)
(* only state that survives a run is the memo of load_data (st.cache_data) *)
(* and the values of the widgets (Streamlit's session state).  A run is    *)
(* modelled section by section, in the order of the source: load, clean,   *)
(* sidebar, filters, KPIs and the six tabs.  An uncaught exception ends    *)
(* the run where it is raised and leaves what was rendered so far on the   *)
(* page.                                                                   *)
(*                                                                         *)
(* Data.  A table is a record [cols, rows]: the set of column names of the *)
(* CSV header and the sequence of data rows.  A row carries its pandas     *)
(* index label (idx, the position of the row in the file) and its cells.   *)
(* A missing cell is NA in a string column and NaN in a numeric column.    *)
(* The cells of ResourceId and BucketName are opaque labels that no        *)
(* computation reads; only the presence of these columns is modelled.      *)
(* Costs are whole USD, sizes are whole GB, so that means, sums and their  *)
(* formatting are exact.                                                   *)
(***************************************************************************)
EXTENDS Integers, Sequences, FiniteSets, TLC

(***************************************************************************)
(* Bounds of the model.                                                    *)
(***************************************************************************)
MaxRows == 2
    \* rows of a CSV file in the general input family
MaxGroupRows == 3
    \* rows of a CSV file in the grouping input family
MaxTopRows == 6
    \* rows of a CSV file in the ranking input family (more than TopK)

(***************************************************************************)
(* Program constants.                                                      *)
(***************************************************************************)
TopK == 5
    \* nlargest(5, ...)

Regions == {"eu-west-1", "us-east-1"}
NA == "NaN"
    \* a missing Region cell
NaN == 0 - 1
    \* a missing numeric cell (all present numbers are >= 0)
CostValues == {1, 2}
CpuValues == {1, 2}
SizeValues == {500, 1500}

Ec2Columns == {"ResourceId", "Region", "CostUSD", "CPUUtilization"}
S3Columns == {"BucketName", "Region", "TotalSizeGB", "CostUSD"}

NoTable == [cols |-> {}, rows |-> <<>>]
    \* a name of the script that is not bound yet in this run

(***************************************************************************)
(* Sequences and numbers.                                                  *)
(***************************************************************************)
Range(s) == {s[i] : i \in DOMAIN s}

Min(a, b) == IF a <= b THEN a ELSE b

RECURSIVE GCD(_, _)
GCD(a, b) == IF b = 0 THEN a ELSE GCD(b, a % b)

\* A float that is the quotient of two non-negative integers, in lowest terms.
Rational(num, den) ==
    LET g == GCD(num, den) IN [num |-> num \div g, den |-> den \div g]

RatLe(p, q) == p.num * q.den <= q.num * p.den

\* The integer nearest to num/den, the even one on an exact tie: the rounding
\* of Python's float formatting.
RoundHalfEven(num, den) ==
    LET q == num \div den
        r == num % den
    IN  IF 2 * r < den THEN q
        ELSE IF 2 * r > den THEN q + 1
        ELSE IF q % 2 = 0 THEN q ELSE q + 1

Pad(n, width) ==
    IF width = 3 /\ n < 10 THEN "00" \o ToString(n)
    ELSE IF (width = 3 /\ n < 100) \/ (width = 2 /\ n < 10) THEN "0" \o ToString(n)
    ELSE ToString(n)

RECURSIVE Commas(_)
Commas(n) ==
    IF n < 1000 THEN ToString(n)
    ELSE Commas(n \div 1000) \o "," \o Pad(n % 1000, 3)

\* f"{x:.2f}"
Format2f(x) ==
    LET h == RoundHalfEven(100 * x.num, x.den)
    IN  ToString(h \div 100) \o "." \o Pad(h % 100, 2)

\* f"{x:,.0f}"
FormatComma0f(x) == Commas(RoundHalfEven(x.num, x.den))

(***************************************************************************)
(* pandas.                                                                 *)
(***************************************************************************)
\* DataFrame.dropna(subset=...): the rows with no missing cell in `subset`.
DropNa(rows, subset) ==
    SelectSeq(rows, LAMBDA r : \A c \in subset : r[c] # NaN)

\* DataFrame.fillna({col: value}) on a table that has the column.
FillNa(rows, col, value) ==
    [i \in DOMAIN rows |->
        IF rows[i][col] = NaN THEN [rows[i] EXCEPT ![col] = value] ELSE rows[i]]

\* Series.dropna().unique() of a string column, as the set sorted() orders.
UniqueNotNa(rows, col) == {r[col] : r \in Range(rows)} \ {NA}

\* Series.min() / Series.max(), skipping missing cells; NaN when none is left.
ColMin(rows, col) ==
    LET vs == {r[col] : r \in Range(rows)} \ {NaN}
    IN  IF vs = {} THEN NaN ELSE CHOOSE v \in vs : \A w \in vs : v <= w

ColMax(rows, col) ==
    LET vs == {r[col] : r \in Range(rows)} \ {NaN}
    IN  IF vs = {} THEN NaN ELSE CHOOSE v \in vs : \A w \in vs : w <= v

\* Series.isin(values): a missing cell is in no list of present values.
IsIn(x, values) == x \in values

\* Series.between(left, right), inclusive="both": left <= x and x <= right,
\* every comparison with a NaN being false.
Between(x, left, right) ==
    /\ x # NaN /\ left # NaN /\ right # NaN
    /\ left <= x
    /\ x <= right

\* Series.sum() of a numeric column, skipping missing cells (0 when none is left).
RECURSIVE ColSum(_, _)
ColSum(rows, col) ==
    IF rows = <<>> THEN 0
    ELSE (IF Head(rows)[col] = NaN THEN 0 ELSE Head(rows)[col]) + ColSum(Tail(rows), col)

\* Series.mean() of a numeric column with no missing cell, on a non-empty table.
ColMean(rows, col) == Rational(ColSum(rows, col), Len(rows))

\* The orders in which a sort of the rows in S by `col` may leave them.  The
\* program sorts with sort_values' default kind, quicksort, which is not
\* stable: rows with equal keys may come out in any order.
RECURSIVE Orders(_, _, _)
Orders(S, col, ascending) ==
    IF S = {} THEN {<<>>}
    ELSE LET first == {x \in S : \A y \in S :
                          IF ascending THEN x[col] <= y[col] ELSE y[col] <= x[col]}
         IN  UNION {{<<x>> \o t : t \in Orders(S \ {x}, col, ascending)} : x \in first}

\* DataFrame.sort_values(col, ascending=...): the present keys sorted, the rows
\* with a missing key after them in their original order (na_position="last").
SortValues(rows, col, ascending) ==
    LET present == {r \in Range(rows) : r[col] # NaN}
        missing == SelectSeq(rows, LAMBDA r : r[col] = NaN)
    IN  {s \o missing : s \in Orders(present, col, ascending)}

\* The rows in S by descending key, equal keys in the order of the table
\* (argsort(kind="mergesort") of the negated keys).
RECURSIVE StableDescending(_, _)
StableDescending(S, col) ==
    IF S = {} THEN <<>>
    ELSE LET x == CHOOSE x \in S : \A y \in S :
                      \/ y[col] < x[col]
                      \/ (y[col] = x[col] /\ x.idx <= y.idx)
         IN  <<x>> \o StableDescending(S \ {x}, col)

\* libalgos.kth_smallest of the negated keys: the k-th largest key of S.
KthLargest(S, k, col) ==
    CHOOSE v \in {r[col] : r \in S} :
        /\ Cardinality({r \in S : r[col] > v}) < k
        /\ Cardinality({r \in S : r[col] >= v}) >= k

\* NlargestKeepLast: nlargest with keep="last", the cut-off tie going to the
\* later rows.
NlargestKeepLast(rows, n, col) ==
    LET present == {r \in Range(rows) : r[col] # NaN}
        missing == SelectSeq(rows, LAMBDA r : r[col] = NaN)
        m == Min(n, Cardinality(present))
        above == {r \in present : Cardinality({q \in present :
                     q[col] > r[col] \/ (q[col] = r[col] /\ q.idx > r.idx)}) < m}
    IN  IF n >= Len(rows)
        THEN {SubSeq(s, 1, Min(n, Len(s))) : s \in SortValues(rows, col, FALSE)}
        ELSE {SubSeq(StableDescending(above, col) \o missing, 1, n)}

\* DataFrame.nlargest(n, col), keep="first": the sequences it may return.
\* With n >= len it is sort_values(ascending=False).head(n); otherwise the
\* rows with a present key that is at least the n-th largest, in stable
\* descending order, cut to n, then the rows with a missing key, all cut to n.
Nlargest(rows, n, col) ==
    LET present == {r \in Range(rows) : r[col] # NaN}
        missing == SelectSeq(rows, LAMBDA r : r[col] = NaN)
        m == Min(n, Cardinality(present))
        ns == IF present = {} THEN {}
              ELSE {r \in present : r[col] >= KthLargest(present, m, col)}
        inds == SubSeq(StableDescending(ns, col), 1, m)
    IN  IF n >= Len(rows)
        THEN {SubSeq(s, 1, Min(n, Len(s))) : s \in SortValues(rows, col, FALSE)}
        ELSE {SubSeq(inds \o missing, 1, n)}

\* TopRowsDescending: the ranking without the ascending re-sort.
TopRowsDescending(view, col) == Nlargest(view, TopK, col)

\* view.nlargest(5, col).sort_values(col, ascending=True): the top rows as the
\* bar chart and the table list them.

TopRows(view, col) ==
    UNION {SortValues(t, col, TRUE) : t \in Nlargest(view, TopK, col)}

\* The rows of a group.
GroupRows(view, region) == SelectSeq(view, LAMBDA r : r.Region = region)

\* view.groupby("Region")[col].sum(): one entry per present Region of the view,
\* its value the sum of the group's present cells.
GroupBySum(view, col) ==
    {[Region |-> g, value |-> Rational(ColSum(GroupRows(view, g), col), 1)] :
        g \in UniqueNotNa(view, "Region")}

\* GroupByTotal: the group's total in place of its mean.
GroupByTotal(view, col) ==
    {[Region |-> g, value |-> Rational(ColSum(GroupRows(view, g), col), 1)] :
        g \in UniqueNotNa(view, "Region")}

\* view.groupby("Region")[col].mean(): one entry per present Region of the
\* view (dropna=True), its value the mean of the group.
GroupByMean(view, col) ==
    {[Region |-> g, value |-> ColMean(GroupRows(view, g), col)] :
        g \in UniqueNotNa(view, "Region")}

\* Series.sort_values(ascending=False): the orders a descending sort of the
\* entries may leave them in (quicksort, equal values in any order).
RECURSIVE SortSeriesDescending(_)
SortSeriesDescending(S) ==
    IF S = {} THEN {<<>>}
    ELSE LET first == {x \in S : \A y \in S : RatLe(y.value, x.value)}
         IN  UNION {{<<x>> \o t : t \in SortSeriesDescending(S \ {x})} : x \in first}

\* Series.max()
SeriesMax(series) ==
    LET vs == {series[i].value : i \in DOMAIN series}
    IN  CHOOSE v \in vs : \A w \in vs : RatLe(w, v)

\* IdxLast: the label of the last entry.
IdxLast(series) == series[Len(series)].Region

\* Series.idxmax(): the label of the first entry that holds the maximum.
IdxMax(series) ==
    LET i == CHOOSE i \in DOMAIN series :
                 /\ series[i].value = SeriesMax(series)
                 /\ \A j \in 1..(i - 1) : series[j].value # SeriesMax(series)
    IN  series[i].Region

(***************************************************************************)
(* The filter engine (lines 77-83).                                        *)
(***************************************************************************)
\* FilterEc2NoCpu: the compute filter without its utilisation predicate.
FilterEc2NoCpu(rows, regions, cost_range, cpu_range) ==
    SelectSeq(rows, LAMBDA r :
        /\ IsIn(r.Region, regions)
        /\ Between(r.CostUSD, cost_range[1], cost_range[2]))

FilterEc2(rows, regions, cost_range, cpu_range) ==
    SelectSeq(rows, LAMBDA r :
        /\ IsIn(r.Region, regions)
        /\ Between(r.CostUSD, cost_range[1], cost_range[2])
        /\ Between(r.CPUUtilization, cpu_range[1], cpu_range[2]))

FilterS3(rows, regions) == SelectSeq(rows, LAMBDA r : IsIn(r.Region, regions))

(***************************************************************************)
(* State.                                                                  *)
(***************************************************************************)
VARIABLES
    ec2_csv, s3_csv,
        \* the two input files: [exists, cols, rows]
    cache, reads,
        \* st.cache_data's memo of load_data(): <<>> or <<[ec2, s3]>>; how
        \* often each file has been read
    session,
        \* Streamlit's widget state: per widget <<>> (untouched) or <<value>>
    pc, error,
        \* the section of the script the run is at (or raised in); the
        \* exception that ended the run, "None" while there is none
    ec2_df, s3_df,
    ec2_regions, s3_regions, selected_ec2_regions, selected_s3_regions,
    ec2_cost_range, ec2_cpu_range, show_raw_data,
    widgets,
        \* the widgets the run has put into the sidebar
    ec2_filtered, s3_filtered,
    kpis,
        \* the st.metric calls made, in order: [label, value]
    rendered,
        \* the charts, tables and notices shown below the KPIs, in order
    avg_cost_region, storage_by_region, total_storage_region,
    top_ec2, top_s3,
    opt,
        \* the locals of the optimisation tab
    strategies,
    evaluated
        \* every group-by and nlargest evaluated in this run, with its site and
        \* whether the view it was evaluated on was empty

files == <<ec2_csv, s3_csv>>
memo == <<cache, reads>>
tables == <<ec2_df, s3_df>>
sidebar == <<ec2_regions, s3_regions, selected_ec2_regions, selected_s3_regions,
             ec2_cost_range, ec2_cpu_range, show_raw_data, widgets>>
views == <<ec2_filtered, s3_filtered>>
overview == <<avg_cost_region, storage_by_region>>
tops == <<top_ec2, top_s3>>
insight == <<opt, strategies>>
vars == <<files, memo, session, pc, error, tables, sidebar, views, kpis, rendered,
          overview, total_storage_region, tops, insight, evaluated>>

NoSession == [ec2_regions |-> <<>>, s3_regions |-> <<>>, cost |-> <<>>,
              cpu |-> <<>>, show_raw |-> <<>>]

NoOpt == [avg_cost_region_opt |-> <<>>, ec2_expensive_region |-> "None",
          ec2_expensive_value |-> <<>>, storage_by_region_opt |-> <<>>,
          s3_heaviest_region |-> "None", s3_heaviest_value |-> <<>>]

\* The names of a run before the script binds them.
FreshRun ==
    /\ pc = "load"
    /\ error = "None"
    /\ ec2_df = NoTable /\ s3_df = NoTable
    /\ ec2_regions = {} /\ s3_regions = {}
    /\ selected_ec2_regions = {} /\ selected_s3_regions = {}
    /\ ec2_cost_range = <<NaN, NaN>> /\ ec2_cpu_range = <<NaN, NaN>>
    /\ show_raw_data = FALSE
    /\ widgets = {}
    /\ ec2_filtered = <<>> /\ s3_filtered = <<>>
    /\ kpis = <<>>
    /\ rendered = <<>>
    /\ avg_cost_region = <<>> /\ storage_by_region = <<>>
    /\ total_storage_region = <<>>
    /\ top_ec2 = <<>> /\ top_s3 = <<>>
    /\ opt = NoOpt
    /\ strategies = <<>>
    /\ evaluated = {}

\* A rerun executes the script again from its first line, in a new namespace
\* and on a cleared page.
Rerun ==
    /\ pc' = "load"
    /\ error' = "None"
    /\ ec2_df' = NoTable /\ s3_df' = NoTable
    /\ ec2_regions' = {} /\ s3_regions' = {}
    /\ selected_ec2_regions' = {} /\ selected_s3_regions' = {}
    /\ ec2_cost_range' = <<NaN, NaN>> /\ ec2_cpu_range' = <<NaN, NaN>>
    /\ show_raw_data' = FALSE
    /\ widgets' = {}
    /\ ec2_filtered' = <<>> /\ s3_filtered' = <<>>
    /\ kpis' = <<>>
    /\ rendered' = <<>>
    /\ avg_cost_region' = <<>> /\ storage_by_region' = <<>>
    /\ total_storage_region' = <<>>
    /\ top_ec2' = <<>> /\ top_s3' = <<>>
    /\ opt' = NoOpt
    /\ strategies' = <<>>
    /\ evaluated' = {}

\* An uncaught exception ends the run in the section that raised it.
Raise(exception) == error' = exception /\ UNCHANGED pc

\* The run is about to execute `section`.
At(section) == pc = section /\ error = "None"

Sections == <<"load", "clean", "sidebar", "filter", "kpi", "overview", "ec2", "s3",
              "top", "opt", "data", "done">>

SectionIndex(section) == CHOOSE i \in DOMAIN Sections : Sections[i] = section

\* The run has executed `section` to its end.
Passed(section) == SectionIndex(pc) > SectionIndex(section)

\* The value a widget returns: what the user set it to, else its default.
WidgetValue(key, default) ==
    IF session[key] = <<>> THEN default ELSE session[key][1]

(***************************************************************************)
(* Lines 18-24: load_data(), memoised by st.cache_data.  A call that       *)
(* raises stores nothing.                                                  *)
(***************************************************************************)
ReadCsv(file) == [cols |-> file.cols, rows |-> file.rows]

\* LoadDataUncached: load_data() without its memo.
LoadDataUncached ==
    /\ At("load")
    /\ IF ~ec2_csv.exists
       THEN /\ Raise("FileNotFoundError")
            /\ UNCHANGED <<memo, tables>>
       ELSE IF ~s3_csv.exists
       THEN /\ Raise("FileNotFoundError")
            /\ reads' = [reads EXCEPT !.ec2 = @ + 1]
            /\ UNCHANGED <<cache, tables>>
       ELSE /\ reads' = [ec2 |-> reads.ec2 + 1, s3 |-> reads.s3 + 1]
            /\ cache' = <<[ec2 |-> ReadCsv(ec2_csv), s3 |-> ReadCsv(s3_csv)]>>
            /\ ec2_df' = ReadCsv(ec2_csv)
            /\ s3_df' = ReadCsv(s3_csv)
            /\ pc' = "clean"
            /\ UNCHANGED error
    /\ UNCHANGED <<files, session, sidebar, views, kpis, rendered, overview,
                   total_storage_region, tops, insight, evaluated>>

LoadData ==
    /\ At("load")
    /\ IF cache # <<>>
       THEN /\ ec2_df' = cache[1].ec2
            /\ s3_df' = cache[1].s3
            /\ pc' = "clean"
            /\ UNCHANGED <<memo, error>>
       ELSE IF ~ec2_csv.exists
       THEN /\ Raise("FileNotFoundError")
            /\ UNCHANGED <<memo, tables>>
       ELSE IF ~s3_csv.exists
       THEN /\ Raise("FileNotFoundError")
            /\ reads' = [reads EXCEPT !.ec2 = @ + 1]
            /\ UNCHANGED <<cache, tables>>
       ELSE /\ reads' = [ec2 |-> reads.ec2 + 1, s3 |-> reads.s3 + 1]
            /\ cache' = <<[ec2 |-> ReadCsv(ec2_csv), s3 |-> ReadCsv(s3_csv)]>>
            /\ ec2_df' = ReadCsv(ec2_csv)
            /\ s3_df' = ReadCsv(s3_csv)
            /\ pc' = "clean"
            /\ UNCHANGED error
    /\ UNCHANGED <<files, session, sidebar, views, kpis, rendered, overview,
                   total_storage_region, tops, insight, evaluated>>

(***************************************************************************)
(* Lines 26-28: basic cleaning.  dropna raises KeyError for a column of    *)
(* `subset` the table lacks; fillna skips a key that is no column.         *)
(***************************************************************************)
Clean ==
    /\ At("clean")
    /\ IF ~({"CostUSD", "CPUUtilization"} \subseteq ec2_df.cols)
       THEN /\ Raise("KeyError")
            /\ UNCHANGED tables
       ELSE /\ ec2_df' = [ec2_df EXCEPT
                             !.rows = DropNa(@, {"CostUSD", "CPUUtilization"})]
            /\ s3_df' = IF "CostUSD" \in s3_df.cols
                        THEN [s3_df EXCEPT !.rows = FillNa(@, "CostUSD", 0)]
                        ELSE s3_df
            /\ pc' = "sidebar"
            /\ UNCHANGED error
    /\ UNCHANGED <<files, memo, session, sidebar, views, kpis, rendered, overview,
                   total_storage_region, tops, insight, evaluated>>

(***************************************************************************)
(* Lines 33-72: the sidebar.  Five widgets, in order; the statement that   *)
(* raises ends the run with the widgets before it in place.  A widget that *)
(* is placed registers the value it returns in the session.  On an empty   *)
(* cleaned compute table min() and max() are NaN; what st.slider does with *)
(* NaN bounds is not defined by its contract: it raises, or it returns its *)
(* default value, the pair of NaNs.                                        *)
(***************************************************************************)
Sidebar ==
    /\ At("sidebar")
    /\ LET ec2_min_cost == ColMin(ec2_df.rows, "CostUSD")
           ec2_max_cost == ColMax(ec2_df.rows, "CostUSD")
           ec2_min_cpu == ColMin(ec2_df.rows, "CPUUtilization")
           ec2_max_cpu == ColMax(ec2_df.rows, "CPUUtilization")
       IN  \E cost_ok \in IF ec2_min_cost = NaN THEN BOOLEAN ELSE {TRUE} :
           \E cpu_ok \in IF ec2_min_cpu = NaN THEN BOOLEAN ELSE {TRUE} :
             LET placed == IF "Region" \notin ec2_df.cols THEN 0
                           ELSE IF "Region" \notin s3_df.cols THEN 1
                           ELSE IF ~cost_ok THEN 2
                           ELSE IF ~cpu_ok THEN 3
                           ELSE 5
                 options_ec2 == UniqueNotNa(ec2_df.rows, "Region")
                 options_s3 == UniqueNotNa(s3_df.rows, "Region")
             IN  /\ ec2_regions' = IF placed >= 1 THEN options_ec2 ELSE ec2_regions
                 /\ selected_ec2_regions' =
                        IF placed >= 1 THEN WidgetValue("ec2_regions", options_ec2)
                        ELSE selected_ec2_regions
                 /\ s3_regions' = IF placed >= 2 THEN options_s3 ELSE s3_regions
                 /\ selected_s3_regions' =
                        IF placed >= 2 THEN WidgetValue("s3_regions", options_s3)
                        ELSE selected_s3_regions
                 /\ ec2_cost_range' =
                        IF placed >= 3
                        THEN WidgetValue("cost", <<ec2_min_cost, ec2_max_cost>>)
                        ELSE ec2_cost_range
                 /\ ec2_cpu_range' =
                        IF placed >= 5
                        THEN WidgetValue("cpu", <<ec2_min_cpu, ec2_max_cpu>>)
                        ELSE ec2_cpu_range
                 /\ show_raw_data' =
                        IF placed >= 5 THEN WidgetValue("show_raw", FALSE)
                        ELSE show_raw_data
                 /\ widgets' = {w \in {"EC2 Regions", "S3 Regions", "EC2 Cost (USD/hr)",
                                       "EC2 CPU Utilization (%)", "Show raw tables"} :
                                  \/ w = "EC2 Regions" /\ placed >= 1
                                  \/ w = "S3 Regions" /\ placed >= 2
                                  \/ w = "EC2 Cost (USD/hr)" /\ placed >= 3
                                  \/ w = "EC2 CPU Utilization (%)" /\ placed >= 5
                                  \/ w = "Show raw tables" /\ placed >= 5}
                 /\ session' =
                        [ec2_regions |-> IF placed >= 1 THEN <<selected_ec2_regions'>>
                                         ELSE session.ec2_regions,
                         s3_regions |-> IF placed >= 2 THEN <<selected_s3_regions'>>
                                        ELSE session.s3_regions,
                         cost |-> IF placed >= 3 THEN <<ec2_cost_range'>>
                                  ELSE session.cost,
                         cpu |-> IF placed >= 5 THEN <<ec2_cpu_range'>> ELSE session.cpu,
                         show_raw |-> IF placed >= 5 THEN <<show_raw_data'>>
                                      ELSE session.show_raw]
                 /\ IF placed = 5 THEN pc' = "filter" /\ UNCHANGED error
                    ELSE IF placed <= 1 THEN Raise("KeyError")
                    ELSE Raise("StreamlitAPIException")
    /\ UNCHANGED <<files, memo, tables, views, kpis, rendered, overview,
                   total_storage_region, tops, insight, evaluated>>

(***************************************************************************)
(* Lines 77-83: apply filters.                                             *)
(***************************************************************************)
ApplyFilters ==
    /\ At("filter")
    /\ ec2_filtered' = FilterEc2(ec2_df.rows, selected_ec2_regions,
                                 ec2_cost_range, ec2_cpu_range)
    /\ s3_filtered' = FilterS3(s3_df.rows, selected_s3_regions)
    /\ pc' = "kpi"
    /\ UNCHANGED <<files, memo, session, error, tables, sidebar, kpis, rendered,
                   overview, total_storage_region, tops, insight, evaluated>>

(***************************************************************************)
(* Lines 88-99: the four KPIs.  The argument of a metric is evaluated      *)
(* before the metric is shown; the sum of a column the table lacks raises  *)
(* KeyError with the first three metrics on the page.                      *)
(***************************************************************************)
AvgCostKpi(view) ==
    IF view # <<>> THEN Format2f(ColMean(view, "CostUSD")) ELSE "0.00"

TotalStorageKpi(view) ==
    IF view # <<>> THEN FormatComma0f(Rational(ColSum(view, "TotalSizeGB"), 1)) ELSE "0"

KPIs ==
    /\ At("kpi")
    /\ LET first == << [label |-> "EC2 Instances", value |-> ToString(Len(ec2_filtered))],
                       [label |-> "Avg EC2 Cost (USD/hr)", value |-> AvgCostKpi(ec2_filtered)],
                       [label |-> "S3 Buckets", value |-> ToString(Len(s3_filtered))] >>
       IN  IF s3_filtered # <<>> /\ "TotalSizeGB" \notin s3_df.cols
           THEN /\ kpis' = first
                /\ Raise("KeyError")
           ELSE /\ kpis' = Append(first, [label |-> "Total S3 Storage (GB)",
                                         value |-> TotalStorageKpi(s3_filtered)])
                /\ pc' = "overview"
                /\ UNCHANGED error
    /\ UNCHANGED <<files, memo, session, tables, sidebar, views, rendered, overview,
                   total_storage_region, tops, insight, evaluated>>

(***************************************************************************)
(* Lines 118-163: the overview tab.  Each aggregate is evaluated first and *)
(* the emptiness of its result is tested afterwards.  Selecting a column   *)
(* the table lacks from a group-by raises KeyError, on an empty view too.  *)
(***************************************************************************)
Evaluation(site, op, view) == [site |-> site, op |-> op, empty |-> view = <<>>]

TabOverview ==
    /\ At("overview")
    /\ \E a \in SortSeriesDescending(GroupByMean(ec2_filtered, "CostUSD")) :
         LET left == Append(rendered,
                        IF a # <<>> THEN "pyplot: Average EC2 Cost per Region"
                        ELSE "info: No EC2 data available for the selected filters.")
             seen == evaluated \cup
                        {Evaluation("overview", "groupby.mean", ec2_filtered)}
         IN  /\ avg_cost_region' = a
             /\ IF "TotalSizeGB" \notin s3_df.cols
                THEN /\ Raise("KeyError")
                     /\ rendered' = left
                     /\ evaluated' = seen
                     /\ UNCHANGED storage_by_region
                ELSE \E b \in SortSeriesDescending(GroupBySum(s3_filtered, "TotalSizeGB")) :
                       /\ storage_by_region' = b
                       /\ rendered' = Append(left,
                              IF b # <<>> THEN "pyplot: S3 Total Storage by Region"
                              ELSE "info: No S3 data available for the selected filters.")
                       /\ evaluated' = seen \cup
                              {Evaluation("overview", "groupby.sum", s3_filtered)}
                       /\ pc' = "ec2"
                       /\ UNCHANGED error
    /\ UNCHANGED <<files, memo, session, tables, sidebar, views, kpis,
                   total_storage_region, tops, insight>>

(***************************************************************************)
(* Lines 168-198: the EC2 analysis tab.                                    *)
(***************************************************************************)
TabEC2 ==
    /\ At("ec2")
    /\ rendered' = rendered \o
           (IF ec2_filtered # <<>>
            THEN <<"pyplot: EC2 CPU Utilization Distribution", "pyplot: EC2 CPU vs Cost">>
            ELSE <<"info: No EC2 data available for the selected filters.",
                   "info: No EC2 data available for the selected filters.">>)
    /\ pc' = "s3"
    /\ UNCHANGED <<files, memo, session, error, tables, sidebar, views, kpis, overview,
                   total_storage_region, tops, insight, evaluated>>

(***************************************************************************)
(* Lines 203-240: the S3 analysis tab.                                     *)
(***************************************************************************)
TabS3 ==
    /\ At("s3")
    /\ IF s3_filtered # <<>> /\ "CostUSD" \notin s3_df.cols
       THEN /\ Raise("KeyError")
            /\ UNCHANGED <<rendered, total_storage_region, evaluated>>
       ELSE \E t \in SortSeriesDescending(GroupBySum(s3_filtered, "TotalSizeGB")) :
              /\ total_storage_region' = t
              /\ rendered' = rendered \o
                     << IF s3_filtered # <<>> THEN "pyplot: S3 Cost vs Storage Size"
                        ELSE "info: No S3 data available for the selected filters.",
                        IF t # <<>> THEN "pyplot: Total S3 Storage per Region"
                        ELSE "info: No S3 data available for the selected filters." >>
              /\ evaluated' = evaluated \cup
                     {Evaluation("s3", "groupby.sum", s3_filtered)}
              /\ pc' = "top"
              /\ UNCHANGED error
    /\ UNCHANGED <<files, memo, session, tables, sidebar, views, kpis, overview,
                   tops, insight>>

(***************************************************************************)
(* Lines 245-296: the top resources tab.  The label column of the bar      *)
(* chart is read after the ranking is computed.                            *)
(***************************************************************************)
TabTop ==
    /\ At("top")
    /\ \E e \in IF ec2_filtered # <<>> THEN TopRows(ec2_filtered, "CostUSD") ELSE {<<>>} :
       \E b \in IF s3_filtered # <<>> THEN TopRows(s3_filtered, "TotalSizeGB") ELSE {<<>>} :
         LET seen == evaluated \cup
                 (IF ec2_filtered # <<>>
                  THEN {Evaluation("top", "nlargest.CostUSD", ec2_filtered)} ELSE {})
             left == rendered \o
                 (IF ec2_filtered # <<>>
                  THEN <<"pyplot: Top 5 EC2 Instances by Cost", "dataframe: top_ec2">>
                  ELSE <<"info: No EC2 data available for the selected filters.">>)
         IN  /\ top_ec2' = e
             /\ IF ec2_filtered # <<>> /\ "ResourceId" \notin ec2_df.cols
                THEN /\ Raise("KeyError")
                     /\ evaluated' = seen
                     /\ UNCHANGED <<rendered, top_s3>>
                ELSE IF s3_filtered # <<>> /\ "BucketName" \notin s3_df.cols
                THEN /\ Raise("KeyError")
                     /\ top_s3' = b
                     /\ rendered' = left
                     /\ evaluated' = seen \cup
                            {Evaluation("top", "nlargest.TotalSizeGB", s3_filtered)}
                ELSE /\ top_s3' = b
                     /\ rendered' = left \o
                            (IF s3_filtered # <<>>
                             THEN <<"pyplot: Top 5 S3 Buckets by Size", "dataframe: top_s3">>
                             ELSE <<"info: No S3 data available for the selected filters.">>)
                     /\ evaluated' = seen \cup
                            (IF s3_filtered # <<>>
                             THEN {Evaluation("top", "nlargest.TotalSizeGB", s3_filtered)}
                             ELSE {})
                     /\ pc' = "opt"
                     /\ UNCHANGED error
    /\ UNCHANGED <<files, memo, session, tables, sidebar, views, kpis, overview,
                   total_storage_region, insight>>

(***************************************************************************)
(* Lines 301-421: the optimisation strategies tab.                         *)
(***************************************************************************)
\* Python's truth value of a region label or None.
Truthy(region) == region # "None" /\ region # ""

Ec2Pattern(region, value) ==
    IF Truthy(region)
    THEN "Highest avg hourly cost in region " \o region
             \o " (~" \o Format2f(value[1]) \o " USD/hr)"
    ELSE "No EC2 data for current filters"

S3Pattern(region, value) ==
    IF Truthy(region)
    THEN "Largest total storage in region " \o region
             \o " (~" \o FormatComma0f(value[1]) \o " GB)"
    ELSE "No S3 data for current filters"

StrategyMatrix(o) ==
    << [Area |-> "EC2",
        PatternObserved |-> Ec2Pattern(o.ec2_expensive_region, o.ec2_expensive_value),
        OptimizationAction |->
            "Rightsize instances or move flexible workloads to cheaper regions.",
        ExpectedImpact |-> "Lower compute spend while keeping performance acceptable."],
       [Area |-> "EC2",
        PatternObserved |-> "Under-utilized instances with low CPU but non-trivial cost.",
        OptimizationAction |->
            "Downsize instance types or schedule shutdown outside business hours.",
        ExpectedImpact |-> "Avoid paying for idle capacity."],
       [Area |-> "S3",
        PatternObserved |-> S3Pattern(o.s3_heaviest_region, o.s3_heaviest_value),
        OptimizationAction |->
            "Use lifecycle rules to move cold data to STANDARD_IA/GLACIER and expire old objects.",
        ExpectedImpact |-> "Reduce monthly storage cost, especially for archival data."],
       [Area |-> "S3",
        PatternObserved |-> "Potential growth from versioning and duplicate copies.",
        OptimizationAction |->
            "Review versioning; clean up non-current versions and unnecessary replicas.",
        ExpectedImpact |-> "Control long-term storage growth and cost."] >>

TabOpt ==
    /\ At("opt")
    /\ \E a \in IF ec2_filtered # <<>>
                THEN SortSeriesDescending(GroupByMean(ec2_filtered, "CostUSD"))
                ELSE {<<>>} :
       \E b \in IF s3_filtered # <<>>
                THEN SortSeriesDescending(GroupBySum(s3_filtered, "TotalSizeGB"))
                ELSE {<<>>} :
         LET o == [avg_cost_region_opt |-> a,
                   ec2_expensive_region |->
                       IF ec2_filtered # <<>> THEN IdxMax(a) ELSE "None",
                   ec2_expensive_value |->
                       IF ec2_filtered # <<>> THEN <<SeriesMax(a)>> ELSE <<>>,
                   storage_by_region_opt |-> b,
                   s3_heaviest_region |->
                       IF s3_filtered # <<>> THEN IdxMax(b) ELSE "None",
                   s3_heaviest_value |->
                       IF s3_filtered # <<>> THEN <<SeriesMax(b)>> ELSE <<>>]
         IN  /\ opt' = o
             /\ strategies' = StrategyMatrix(o)
             /\ evaluated' = evaluated
                    \cup (IF ec2_filtered # <<>>
                          THEN {Evaluation("opt", "groupby.mean", ec2_filtered)} ELSE {})
                    \cup (IF s3_filtered # <<>>
                          THEN {Evaluation("opt", "groupby.sum", s3_filtered)} ELSE {})
    /\ rendered' = rendered \o
           <<"dataframe: strategies_df",
             "pyplot: Estimated Cost Reduction by Optimization Action",
             "pyplot: Optimization Focus Areas (EC2 vs S3)">>
    /\ pc' = "data"
    /\ UNCHANGED <<files, memo, session, error, tables, sidebar, views, kpis, overview,
                   total_storage_region, tops>>

(***************************************************************************)
(* Lines 426-436: the raw data tab.                                        *)
(***************************************************************************)
TabData ==
    /\ At("data")
    /\ rendered' = rendered \o
           (IF show_raw_data
            THEN <<"dataframe: ec2_filtered", "dataframe: s3_filtered">>
            ELSE <<"info: Enable 'Show raw tables' in the sidebar to view raw data.">>)
    /\ pc' = "done"
    /\ UNCHANGED <<files, memo, session, error, tables, sidebar, views, kpis, overview,
                   total_storage_region, tops, insight, evaluated>>

(***************************************************************************)
(* User interaction.  The user changes a widget that is on the page; the   *)
(* widget keeps the new value and Streamlit runs the script again.  A      *)
(* multiselect offers its options, a range slider the pairs low <= high    *)
(* within its bounds.                                                      *)
(***************************************************************************)
\* The run has ended: the script ran to its last line, or raised.
Idle == pc = "done" \/ error # "None"

SliderValues(rows, col) ==
    IF ColMin(rows, col) = NaN THEN {}
    ELSE {<<lo, hi>> \in (ColMin(rows, col)..ColMax(rows, col))
                           \X (ColMin(rows, col)..ColMax(rows, col)) : lo <= hi}

ChangeEc2Regions ==
    /\ Idle /\ "EC2 Regions" \in widgets
    /\ \E selection \in SUBSET ec2_regions :
         session' = [session EXCEPT !.ec2_regions = <<selection>>]
    /\ Rerun
    /\ UNCHANGED <<files, memo>>

ChangeS3Regions ==
    /\ Idle /\ "S3 Regions" \in widgets
    /\ \E selection \in SUBSET s3_regions :
         session' = [session EXCEPT !.s3_regions = <<selection>>]
    /\ Rerun
    /\ UNCHANGED <<files, memo>>

ChangeCostRange ==
    /\ Idle /\ "EC2 Cost (USD/hr)" \in widgets
    /\ \E range \in SliderValues(ec2_df.rows, "CostUSD") :
         session' = [session EXCEPT !.cost = <<range>>]
    /\ Rerun
    /\ UNCHANGED <<files, memo>>

ChangeCpuRange ==
    /\ Idle /\ "EC2 CPU Utilization (%)" \in widgets
    /\ \E range \in SliderValues(ec2_df.rows, "CPUUtilization") :
         session' = [session EXCEPT !.cpu = <<range>>]
    /\ Rerun
    /\ UNCHANGED <<files, memo>>

ToggleShowRaw ==
    /\ Idle /\ "Show raw tables" \in widgets
    /\ session' = [session EXCEPT !.show_raw = <<~show_raw_data>>]
    /\ Rerun
    /\ UNCHANGED <<files, memo>>

Next ==
    \/ LoadData
    \/ Clean
    \/ Sidebar
    \/ ApplyFilters
    \/ KPIs
    \/ TabOverview
    \/ TabEC2
    \/ TabS3
    \/ TabTop
    \/ TabOpt
    \/ TabData
    \/ ChangeEc2Regions
    \/ ChangeS3Regions
    \/ ChangeCostRange
    \/ ChangeCpuRange
    \/ ToggleShowRaw

(***************************************************************************)
(* Input files.                                                            *)
(***************************************************************************)
Ec2Row(i, region, cost, cpu) ==
    [idx |-> i, Region |-> region, CostUSD |-> cost, CPUUtilization |-> cpu]

S3Row(i, region, size, cost) ==
    [idx |-> i, Region |-> region, TotalSizeGB |-> size, CostUSD |-> cost]

File(cols, rows) == [exists |-> TRUE, cols |-> cols, rows |-> rows]

MissingFile == [exists |-> FALSE, cols |-> {}, rows |-> <<>>]

\* The compute files with the full header whose rows take their cells from
\* `cells` (triples region, cost, cpu) and whose length is in `lengths`.
Ec2Files(cells, lengths) ==
    UNION {{File(Ec2Columns, [i \in 1..n |-> Ec2Row(i, f[i][1], f[i][2], f[i][3])]) :
               f \in [1..n -> cells]} : n \in lengths}

S3Files(cells, lengths) ==
    UNION {{File(S3Columns, [i \in 1..n |-> S3Row(i, f[i][1], f[i][2], f[i][3])]) :
               f \in [1..n -> cells]} : n \in lengths}

\* A file whose header lacks column c: no row has a cell for it.
WithoutColumn(file, c) ==
    [file EXCEPT !.cols = @ \ {c},
                 !.rows = [i \in DOMAIN @ |->
                              IF c \in {"ResourceId", "BucketName"} THEN @[i]
                              ELSE [@[i] EXCEPT ![c] = IF c = "Region" THEN NA ELSE NaN]]]

OneEc2Row == File(Ec2Columns, <<Ec2Row(1, "us-east-1", 1, 1)>>)
OneS3Row == File(S3Columns, <<S3Row(1, "us-east-1", 500, 1)>>)
NoS3Rows == File(S3Columns, <<>>)

\* The rows of the general inputs: every combination of present cells, and a
\* row for each cell that may be missing.
Ec2Cells ==
    (Regions \X CostValues \X CpuValues)
        \cup {<<NA, 1, 1>>, <<"us-east-1", NaN, 1>>, <<"us-east-1", 1, NaN>>}

S3Cells ==
    (Regions \X SizeValues \X {1})
        \cup {<<NA, 500, 1>>, <<"us-east-1", NaN, 1>>, <<"us-east-1", 500, NaN>>}

\* General inputs: every compute file of up to MaxRows rows beside a storage
\* file without rows, and every storage file of up to MaxRows rows beside a
\* compute file of one row.
GeneralInputs ==
    \/ ec2_csv \in Ec2Files(Ec2Cells, 0..MaxRows) /\ s3_csv = NoS3Rows
    \/ ec2_csv = OneEc2Row /\ s3_csv \in S3Files(S3Cells, 0..MaxRows)

\* Grouping inputs: files of MaxGroupRows rows with every cell present, so
\* that a region has several rows beside another region.
GroupingInputs ==
    \/ /\ ec2_csv \in Ec2Files(Regions \X CostValues \X {1}, {MaxGroupRows})
       /\ s3_csv = NoS3Rows
    \/ /\ ec2_csv = OneEc2Row
       /\ s3_csv \in S3Files(Regions \X SizeValues \X {1}, {MaxGroupRows})

\* Ranking inputs: files of MaxTopRows rows of one region, more than TopK, so
\* that the top-5 selection has rows to leave out.
RankingInputs ==
    \/ /\ ec2_csv \in Ec2Files({"us-east-1"} \X CostValues \X {1}, {MaxTopRows})
       /\ s3_csv = NoS3Rows
    \/ /\ ec2_csv = OneEc2Row
       /\ s3_csv \in S3Files({"us-east-1"} \X (SizeValues \cup {NaN}) \X {1},
                             {MaxTopRows})

\* Faulty inputs: a file that is missing, or whose header lacks one of the
\* required columns.
FaultyInputs ==
    /\ ec2_csv \in {MissingFile, OneEc2Row}
                      \cup {WithoutColumn(OneEc2Row, c) : c \in Ec2Columns}
    /\ s3_csv \in {MissingFile, OneS3Row}
                      \cup {WithoutColumn(OneS3Row, c) : c \in S3Columns}

\* The first run of a session: nothing is memoised, no widget has a value.
FirstRun ==
    /\ cache = <<>>
    /\ reads = [ec2 |-> 0, s3 |-> 0]
    /\ session = NoSession
    /\ FreshRun

Init == (GeneralInputs \/ GroupingInputs \/ FaultyInputs) /\ FirstRun

Spec == Init /\ [][Next]_vars

InitRanking == (RankingInputs \/ FaultyInputs) /\ FirstRun

SpecRanking == InitRanking /\ [][Next]_vars

(***************************************************************************)
(* Properties.                                                             *)
(***************************************************************************)
RegionsOf(view) == {r.Region : r \in Range(view)}

Group(view, g) == {r \in Range(view) : r.Region = g}

RECURSIVE SetSum(_, _)
SetSum(S, col) ==
    IF S = {} THEN 0
    ELSE LET x == CHOOSE x \in S : TRUE
         IN  (IF x[col] = NaN THEN 0 ELSE x[col]) + SetSum(S \ {x}, col)

MeanOf(S, col) == Rational(SetSum(S, col), Cardinality(S))

SumOf(S, col) == Rational(SetSum(S, col), 1)

InFileOrder(view) ==
    \A i, j \in DOMAIN view : i < j => view[i].idx < view[j].idx

Inside(x, range) == range[1] <= x /\ x <= range[2]

KeptEc2(r, regions, cost_range, cpu_range) ==
    /\ r.Region \in regions
    /\ Inside(r.CostUSD, cost_range)
    /\ Inside(r.CPUUtilization, cpu_range)

AnyBound == {0, 1, 2, 3}

\* C1: the filtered compute view holds a row of the cleaned compute table if
\* and only if its Region is accepted and its CostUSD and its CPUUtilization
\* lie within their inclusive bounds; the filtered storage view holds a row of
\* the cleaned storage table if and only if its Region is accepted.  Both
\* views are sub-tables in file order, an empty accepted set empties them, and
\* for any bounds whatever, those with min > max included, the compute filter
\* keeps exactly the rows that satisfy the three predicates.
FilterContract ==
    /\ Passed("filter") =>
        /\ \A r \in Range(ec2_df.rows) :
               r \in Range(ec2_filtered) <=>
                   KeptEc2(r, selected_ec2_regions, ec2_cost_range, ec2_cpu_range)
        /\ Range(ec2_filtered) \subseteq Range(ec2_df.rows)
        /\ InFileOrder(ec2_filtered)
        /\ \A r \in Range(s3_df.rows) :
               r \in Range(s3_filtered) <=> r.Region \in selected_s3_regions
        /\ Range(s3_filtered) \subseteq Range(s3_df.rows)
        /\ InFileOrder(s3_filtered)
        /\ selected_ec2_regions = {} => ec2_filtered = <<>>
        /\ selected_s3_regions = {} => s3_filtered = <<>>
    /\ (At("sidebar") /\ session = NoSession) =>
        \A regions \in SUBSET Regions :
        \A cost_range \in AnyBound \X AnyBound, cpu_range \in AnyBound \X AnyBound :
            LET view == FilterEc2(ec2_df.rows, regions, cost_range, cpu_range)
            IN  /\ \A r \in Range(ec2_df.rows) :
                       r \in Range(view) <=> KeptEc2(r, regions, cost_range, cpu_range)
                /\ InFileOrder(view)
                /\ Len(view) = Cardinality(Range(view))
                /\ (cost_range[1] > cost_range[2] \/ cpu_range[1] > cpu_range[2]
                        \/ regions = {}) => view = <<>>

\* A view that keeps one row and drops another for its cost alone.
FilterWitness ==
    /\ Passed("filter")
    /\ \E kept, dropped \in Range(ec2_df.rows) :
         /\ kept \in Range(ec2_filtered)
         /\ dropped \notin Range(ec2_filtered)
         /\ dropped.Region \in selected_ec2_regions
         /\ Inside(dropped.CPUUtilization, ec2_cpu_range)
         /\ ~Inside(dropped.CostUSD, ec2_cost_range)

DefaultCriteria ==
    /\ selected_ec2_regions = ec2_regions
    /\ selected_s3_regions = s3_regions
    /\ ec2_cost_range = <<ColMin(ec2_df.rows, "CostUSD"), ColMax(ec2_df.rows, "CostUSD")>>
    /\ ec2_cpu_range = <<ColMin(ec2_df.rows, "CPUUtilization"),
                         ColMax(ec2_df.rows, "CPUUtilization")>>

\* C2: filtering with the default criteria (every region the controls offer,
\* the full cost range and the full utilisation range of the cleaned compute
\* table) returns the cleaned tables themselves: no cleaned row is lost, the
\* rows whose Region is missing included.
DefaultCriteriaKeepEveryRow ==
    (Passed("filter") /\ DefaultCriteria) =>
        /\ ec2_filtered = ec2_df.rows
        /\ s3_filtered = s3_df.rows

\* A missing key ranks below every number.
KeyGe(a, b) == b = NaN \/ (a # NaN /\ a >= b)

TopContract(view, top, col) ==
    view # <<>> =>
        /\ Len(top) = Min(5, Len(view))
        /\ Range(top) \subseteq Range(view)
        /\ Cardinality(Range(top)) = Len(top)
        /\ \A s \in Range(top), u \in Range(view) \ Range(top) :
               /\ KeyGe(s[col], u[col])
               /\ s[col] = u[col] => s.idx < u.idx

\* C3: of a non-empty filtered view of n rows the top-5 selection (by CostUSD
\* for compute, by TotalSizeGB for storage) holds exactly min(5, n) rows of the
\* view, each selected row's key is at least that of each row left out, and of
\* rows that tie at the cut-off the earlier ones in row order are selected.
TopFiveSelection ==
    Passed("top") =>
        /\ TopContract(ec2_filtered, top_ec2, "CostUSD")
        /\ TopContract(s3_filtered, top_s3, "TotalSizeGB")

\* More than five compute rows, and a tie across the cut-off.
TopFiveWitness ==
    /\ Passed("top")
    /\ Len(ec2_filtered) > 5
    /\ \E s \in Range(top_ec2), u \in Range(ec2_filtered) \ Range(top_ec2) :
         s.CostUSD = u.CostUSD

ListsEveryRow(top, view) ==
    Range(top) = Range(view) /\ Len(top) = Len(view)

\* C4: on a view of fewer than 5 rows the top-5 compute table (top_ec2) lists
\* every row of the view with CostUSD non-increasing from first to last.
TopEc2Descending ==
    (Passed("top") /\ ec2_filtered # <<>> /\ Len(ec2_filtered) < 5) =>
        /\ ListsEveryRow(top_ec2, ec2_filtered)
        /\ \A i, j \in DOMAIN top_ec2 : i < j => top_ec2[i].CostUSD >= top_ec2[j].CostUSD

\* C4, amended: on a view of fewer than 5 rows the top-5 compute table
\* (top_ec2) lists every row of the view with CostUSD non-decreasing from first
\* to last.
TopEc2Ascending ==
    (Passed("top") /\ ec2_filtered # <<>> /\ Len(ec2_filtered) < 5) =>
        /\ ListsEveryRow(top_ec2, ec2_filtered)
        /\ \A i, j \in DOMAIN top_ec2 : i < j => top_ec2[i].CostUSD <= top_ec2[j].CostUSD

\* Fewer than five rows, of different costs.
TopEc2Witness ==
    /\ Passed("top")
    /\ Len(ec2_filtered) \in 2..4
    /\ \E r, q \in Range(top_ec2) : r.CostUSD < q.CostUSD

Labels(series) == {series[i].Region : i \in DOMAIN series}

NonIncreasing(series) ==
    \A i, j \in DOMAIN series : i < j => RatLe(series[j].value, series[i].value)

IsMeanPerRegion(series, view, col) ==
    /\ Labels(series) = RegionsOf(view)
    /\ Len(series) = Cardinality(RegionsOf(view))
    /\ \A i \in DOMAIN series :
           series[i].value.num * Cardinality(Group(view, series[i].Region))
               = series[i].value.den * SetSum(Group(view, series[i].Region), col)
    /\ NonIncreasing(series)

IsSumPerRegion(series, view, col) ==
    /\ Labels(series) = RegionsOf(view)
    /\ Len(series) = Cardinality(RegionsOf(view))
    /\ \A i \in DOMAIN series :
           series[i].value.num
               = series[i].value.den * SetSum(Group(view, series[i].Region), col)
    /\ NonIncreasing(series)

\* C5: the per-region aggregate of a filtered view (mean CostUSD for compute,
\* summed TotalSizeGB for storage) has exactly one entry for each Region that
\* occurs in the view and none for any other, each entry's value is the mean
\* (the sum) over exactly the view's rows of that Region, and the entries are
\* in order of non-increasing value.
RegionAggregates ==
    /\ Passed("overview") =>
        /\ IsMeanPerRegion(avg_cost_region, ec2_filtered, "CostUSD")
        /\ IsSumPerRegion(storage_by_region, s3_filtered, "TotalSizeGB")
    /\ Passed("s3") =>
        IsSumPerRegion(total_storage_region, s3_filtered, "TotalSizeGB")
    /\ (Passed("opt") /\ ec2_filtered # <<>>) =>
        IsMeanPerRegion(opt.avg_cost_region_opt, ec2_filtered, "CostUSD")
    /\ (Passed("opt") /\ s3_filtered # <<>>) =>
        IsSumPerRegion(opt.storage_by_region_opt, s3_filtered, "TotalSizeGB")

\* Two regions, one of two rows with mean 1.5 and one of a single row with
\* mean 1: the shape of groups {A: [10, 20], B: [5]}.
RegionAggregatesWitness ==
    /\ Passed("overview")
    /\ Len(ec2_filtered) = 3
    /\ Len(avg_cost_region) = 2
    /\ avg_cost_region[1].value = [num |-> 3, den |-> 2]
    /\ avg_cost_region[2].value = [num |-> 1, den |-> 1]

\* C6: the templated pattern of the EC2 strategy row is the placeholder "No
\* EC2 data for current filters" if and only if the filtered compute view is
\* empty, and otherwise names a region whose mean CostUSD is the maximum over
\* the regions of the view, the one the descending-sorted aggregate places
\* first, with that mean to two decimals; the S3 row likewise is "No S3 data
\* for current filters" if and only if the filtered storage view is empty, and
\* otherwise names the region of maximum summed TotalSizeGB with that sum.
InsightPatterns ==
    Passed("opt") =>
        /\ strategies[1].PatternObserved = "No EC2 data for current filters"
               <=> ec2_filtered = <<>>
        /\ ec2_filtered # <<>> =>
               \E g \in RegionsOf(ec2_filtered) :
                   /\ \A h \in RegionsOf(ec2_filtered) :
                          RatLe(MeanOf(Group(ec2_filtered, h), "CostUSD"),
                                MeanOf(Group(ec2_filtered, g), "CostUSD"))
                   /\ g = opt.avg_cost_region_opt[1].Region
                   /\ strategies[1].PatternObserved =
                          "Highest avg hourly cost in region " \o g \o " (~"
                              \o Format2f(MeanOf(Group(ec2_filtered, g), "CostUSD"))
                              \o " USD/hr)"
        /\ strategies[3].PatternObserved = "No S3 data for current filters"
               <=> s3_filtered = <<>>
        /\ s3_filtered # <<>> =>
               \E g \in RegionsOf(s3_filtered) :
                   /\ \A h \in RegionsOf(s3_filtered) :
                          RatLe(SumOf(Group(s3_filtered, h), "TotalSizeGB"),
                                SumOf(Group(s3_filtered, g), "TotalSizeGB"))
                   /\ g = opt.storage_by_region_opt[1].Region
                   /\ strategies[3].PatternObserved =
                          "Largest total storage in region " \o g \o " (~"
                              \o FormatComma0f(SumOf(Group(s3_filtered, g), "TotalSizeGB"))
                              \o " GB)"

\* An empty compute view beside a storage view of two regions: the EC2
\* placeholder and a populated S3 pattern with a thousands separator.
InsightPatternsWitness ==
    /\ Passed("opt")
    /\ ec2_filtered = <<>>
    /\ Len(opt.storage_by_region_opt) = 2
    /\ strategies[1].PatternObserved = "No EC2 data for current filters"
    /\ strategies[3].PatternObserved = "Largest total storage in region us-east-1 (~1,500 GB)"

RequiredColumnsPresent ==
    /\ ec2_csv.exists /\ Ec2Columns \subseteq ec2_csv.cols
    /\ s3_csv.exists /\ S3Columns \subseteq s3_csv.cols

\* C7: for every filter criteria the KPI computation ends in a defined value
\* and never in an error: "Avg EC2 Cost" is "0.00" on an empty compute view
\* and the mean CostUSD otherwise, "Total S3 Storage" is "0" on an empty
\* storage view and the summed TotalSizeGB otherwise, and the two counts are
\* the numbers of rows of the views.
KpisAlwaysDefined ==
    /\ pc = "kpi" => error = "None"
    /\ Passed("kpi") =>
        kpis = << [label |-> "EC2 Instances", value |-> ToString(Len(ec2_filtered))],
                  [label |-> "Avg EC2 Cost (USD/hr)",
                   value |-> IF ec2_filtered = <<>> THEN "0.00"
                             ELSE Format2f(MeanOf(Range(ec2_filtered), "CostUSD"))],
                  [label |-> "S3 Buckets", value |-> ToString(Len(s3_filtered))],
                  [label |-> "Total S3 Storage (GB)",
                   value |-> IF s3_filtered = <<>> THEN "0"
                             ELSE FormatComma0f(SumOf(Range(s3_filtered), "TotalSizeGB"))] >>

\* With every required column present the KPI section does not raise, and
\* whenever the four KPIs are shown they are the defined values of C7.
KpisDefinedWhenShown ==
    /\ (RequiredColumnsPresent /\ pc = "kpi") => error = "None"
    /\ Len(kpis) = 4 =>
        /\ kpis[2].value = (IF ec2_filtered = <<>> THEN "0.00"
                            ELSE Format2f(MeanOf(Range(ec2_filtered), "CostUSD")))
        /\ kpis[4].value = (IF s3_filtered = <<>> THEN "0"
                            ELSE FormatComma0f(SumOf(Range(s3_filtered), "TotalSizeGB")))

\* C8: if an input file is missing or lacks a required column the run fails
\* before any KPI, chart or table is produced.
LoadErrorBeforeAnyOutput ==
    ~RequiredColumnsPresent => (kpis = <<>> /\ rendered = <<>>)

\* C9: the two input files are read at most once in a session; once loaded,
\* the memoised raw tables are the files as read and no later step or rerun
\* changes them or reads again; and what a completed run shows is determined
\* by the files and the current filter criteria alone.
LoadOnce ==
    /\ [](reads.ec2 <= 1 /\ reads.s3 <= 1)
    /\ [](Passed("load") =>
            cache = <<[ec2 |-> [cols |-> ec2_csv.cols, rows |-> ec2_csv.rows],
                       s3 |-> [cols |-> s3_csv.cols, rows |-> s3_csv.rows]]>>)
    /\ [][cache # <<>> => (cache' = cache /\ reads' = reads)]_vars
    /\ [](pc = "done" =>
            /\ \A r \in Range(ec2_csv.rows) :
                   r \in Range(ec2_filtered) <=>
                       /\ r.CostUSD # NaN /\ r.CPUUtilization # NaN
                       /\ KeptEc2(r, selected_ec2_regions, ec2_cost_range, ec2_cpu_range)
            /\ {r.idx : r \in Range(s3_filtered)} =
                   {r.idx : r \in {q \in Range(s3_csv.rows) :
                                       q.Region \in selected_s3_regions}})

\* A run that a widget change started has completed on the memoised tables.
LoadOnceWitness ==
    /\ pc = "done"
    /\ reads = [ec2 |-> 1, s3 |-> 1]
    /\ show_raw_data
    /\ selected_ec2_regions # ec2_regions

\* C10: every per-region aggregation and every top-5 selection is evaluated
\* only on a view that an emptiness check has found non-empty: none is ever
\* evaluated on an empty filtered view.
AggregationsGuarded == \A e \in evaluated : ~e.empty

====
